---- MODULE Spec2Model ----
(***************************************************************************)
(* The bounded worker pool and the fetch-and-aggregate run of              *)
(* catalog/scripts/fetch-plugins-data.js and                               *)
(* catalog/scripts/update-catalog-index.mjs.                               *)
(*                                                                         *)
(* JavaScript runs every piece of code between two awaits to completion,   *)
(* so one action of the model is one such piece: the synchronous start of  *)
(* the pool, the continuation of one worker after its process call        *)
(* settled (up to its next await or its exit), and the continuation of    *)
(* main after the pool resolved.                                           *)
(*                                                                         *)
(* A JavaScript string is a sequence of tokens, "" is << >>; a falsy       *)
(* value is Null, Undefined or the empty string.                           *)
(***************************************************************************)
EXTENDS Integers, Sequences, FiniteSets, TLC

(***************************************************************************)
(* Bounds of the model.                                                    *)
(***************************************************************************)
\* longest directory listing explored
MaxPackages == 4
\* number of workers of the pool; the scripts set 10 (fetch-plugins-data.js
\* line 148, update-catalog-index.mjs line 57), the model is parametric in it
CONCURRENCY == 2
\* largest value of maxItems handed to the pool
MaxMaxItems == 3

(***************************************************************************)
(* JavaScript values.                                                      *)
(***************************************************************************)
Undefined == [kind |-> "undefined"]
Null == [kind |-> "null"]

\* truthiness of an object-or-null/undefined value (if (result), filter(Boolean))
Truthy(v) == v.kind \notin {"undefined", "null"}

\* an optional number: << >> is undefined, <<n>> is the number n
NumUndefined == << >>
NumDefined(m) == Len(m) = 1
\* truthiness of an optional number (if (maxItems && ...)): undefined and 0 are falsy
NumTruthy(m) == Len(m) = 1 /\ m[1] # 0

\* String.prototype.includes on token sequences: pat occurs as a contiguous run
Includes(s, pat) ==
  \E i \in 0..(Len(s) - Len(pat)) :
    \A j \in 1..Len(pat) : s[i + j] = pat[j]

RECURSIVE JoinFrom(_, _, _)
JoinFrom(parts, sep, i) ==
  IF i > Len(parts) THEN << >>
  ELSE IF i = Len(parts) THEN parts[i]
  ELSE parts[i] \o sep \o JoinFrom(parts, sep, i + 1)

\* the parts are joined with nothing between them
JoinNoSeparator(parts, sep) == JoinFrom(parts, << >>, 1)

\* Array.prototype.join: the parts with the separator between them
Join(parts, sep) == JoinFrom(parts, sep, 1)

(***************************************************************************)
(* HTTP.  A response is a status and a body; Rejected is a fetch whose     *)
(* promise rejects (transport failure).                                    *)
(***************************************************************************)
Rejected == [kind |-> "rejected", message |-> <<"network", "error">>]
Response(status, body) == [kind |-> "response", status |-> status, body |-> body]

\* res.ok
Ok(res) == res.status >= 200 /\ res.status <= 299

Return(v) == [kind |-> "return", value |-> v]
Throw(msg) == [kind |-> "throw", message |-> msg]

\* `${caller}: Rate limited or too many requests. Status: ${res.status}`
RateLimitMessage(caller, status) ==
  <<caller, ":", "Rate limited", "or", "too many requests", ".", "Status", ":", ToString(status)>>

\* status 429 is taken for an ordinary failure
fetchWithCheckOnly403(res, caller) ==
  IF res.kind = "rejected" THEN Throw(res.message)
  ELSE IF ~Ok(res) THEN
    IF res.status = 403
      THEN Throw(RateLimitMessage(caller, res.status))
      ELSE Return(Null)
  ELSE Return(res)

\* fetchWithCheck: the response when 2xx, a thrown "Rate limited" error on
\* 403/429, null on any other status; a rejected fetch is re-thrown
fetchWithCheck(res, caller) ==
  IF res.kind = "rejected" THEN Throw(res.message)
  ELSE IF ~Ok(res) THEN
    IF res.status = 403 \/ res.status = 429
      THEN Throw(RateLimitMessage(caller, res.status))
      ELSE Return(Null)
  ELSE Return(res)

\* a body is JSON for an object, JSON for an array, or not JSON (json() throws)
JsonObject(fields) == [kind |-> "object", fields |-> fields]
JsonArray(items) == [kind |-> "array", items |-> items]
NotJson == [kind |-> "notjson"]

\* a manifest with every field the scripts read; an absent field is ""
ManifestFields(name, id, description, author, repo, icon) ==
  [name |-> name, id |-> id, description |-> description,
   author |-> author, repo |-> repo, icon |-> icon]

\* fetchManifest of fetch-plugins-data.js: every failure, a thrown rate limit
\* included, is caught and becomes null
fetchManifest(res) ==
  LET r == fetchWithCheck(res, "fetchManifest") IN
    IF r.kind = "throw" THEN Null
    ELSE IF ~Truthy(r.value) THEN Null
    ELSE IF r.value.body.kind = "notjson" THEN Null
    ELSE r.value.body

\* the author is tested before the description
validateManifestAuthorFirst(manifest) ==
  (IF manifest.fields.author = << >> THEN << <<"Missing package author">> >> ELSE << >>)
  \o (IF manifest.fields.description = << >> THEN << <<"Missing package description">> >> ELSE << >>)
  \o (IF manifest.fields.repo = << >> THEN << <<"Missing package repository">> >> ELSE << >>)
  \o (IF manifest.fields.icon = << >> THEN << <<"Missing package icon">> >> ELSE << >>)

\* validateManifest(manifest): one warning per falsy field, in the order of the tests
validateManifest(manifest) ==
  (IF manifest.fields.description = << >> THEN << <<"Missing package description">> >> ELSE << >>)
  \o (IF manifest.fields.author = << >> THEN << <<"Missing package author">> >> ELSE << >>)
  \o (IF manifest.fields.repo = << >> THEN << <<"Missing package repository">> >> ELSE << >>)
  \o (IF manifest.fields.icon = << >> THEN << <<"Missing package icon">> >> ELSE << >>)

RAW_URL == <<"https://raw.githubusercontent.com/logseq/marketplace/master/packages">>

fetchIconUrl(packageName, manifest) ==
  IF Truthy(manifest) /\ manifest.fields.icon # << >>
    THEN RAW_URL \o <<"/">> \o packageName \o <<"/">> \o manifest.fields.icon
    ELSE << >>

NoDates == [created_at |-> << >>, last_updated |-> << >>]

\* the first element is taken for the oldest commit
fetchCommitDatesSwapped(res) ==
  LET r == fetchWithCheck(res, "fetchCommitDates") IN
    IF r.kind = "throw" THEN NoDates
    ELSE IF ~Truthy(r.value) THEN NoDates
    ELSE IF r.value.body.kind = "notjson" THEN NoDates
    ELSE IF r.value.body.kind # "array" \/ Len(r.value.body.items) = 0 THEN NoDates
    ELSE [created_at |-> r.value.body.items[1],
          last_updated |-> r.value.body.items[Len(r.value.body.items)]]

\* fetchCommitDates of fetch-plugins-data.js: never throws; the list is newest first
fetchCommitDates(res) ==
  LET r == fetchWithCheck(res, "fetchCommitDates") IN
    IF r.kind = "throw" THEN NoDates
    ELSE IF ~Truthy(r.value) THEN NoDates
    ELSE IF r.value.body.kind = "notjson" THEN NoDates
    ELSE IF r.value.body.kind # "array" \/ Len(r.value.body.items) = 0 THEN NoDates
    ELSE [created_at |-> r.value.body.items[Len(r.value.body.items)],
          last_updated |-> r.value.body.items[1]]

ReadmeUrl(repo, branch) ==
  [kind |-> "url",
   url |-> <<"https://raw.githubusercontent.com/">> \o repo \o <<"/", branch, "/README.md">>]

\* the master branch is probed first
getValidReadmeUrlMasterFirst(repo, resMain, resMaster) ==
  IF resMaster.kind = "rejected" THEN Null
  ELSE IF Ok(resMaster) THEN ReadmeUrl(repo, "master")
  ELSE IF resMain.kind = "rejected" THEN Null
  ELSE IF Ok(resMain) THEN ReadmeUrl(repo, "main")
  ELSE Null

\* getValidReadmeUrl: main first, then master; a rejected probe ends the search
getValidReadmeUrl(repo, resMain, resMaster) ==
  IF resMain.kind = "rejected" THEN Null
  ELSE IF Ok(resMain) THEN ReadmeUrl(repo, "main")
  ELSE IF resMaster.kind = "rejected" THEN Null
  ELSE IF Ok(resMaster) THEN ReadmeUrl(repo, "master")
  ELSE Null

\* the probes getValidReadmeUrl issues: master only after a main probe that
\* was answered and was not ok
ReadmeProbes(resMain, resMaster) ==
  IF resMain.kind = "rejected" THEN <<"main">>
  ELSE IF Ok(resMain) THEN <<"main">>
  ELSE <<"main", "master">>

\* s || t on strings
OrElse(s, t) == IF s # << >> THEN s ELSE t

\* what the network answers to the requests of one package
Net(manifest, commits, readmeMain, readmeMaster) ==
  [manifest |-> manifest, commits |-> commits,
   readmeMain |-> readmeMain, readmeMaster |-> readmeMaster]

\* the record of a package without manifest loses its commit dates
BuildRecordDatesDropped(pkg, manifest, commitDates, net) ==
  IF Truthy(manifest) THEN
    LET errors0 == validateManifest(manifest)
        iconUrl == fetchIconUrl(pkg.name, manifest)
        readmeUrl == getValidReadmeUrl(manifest.fields.repo, net.readmeMain, net.readmeMaster)
        errors == IF ~Truthy(readmeUrl) THEN Append(errors0, <<"Missing README">>) ELSE errors0
    IN [kind |-> "record",
        name |-> OrElse(manifest.fields.name, pkg.name),
        id |-> manifest.fields.id,
        description |-> manifest.fields.description,
        author |-> manifest.fields.author,
        repo |-> manifest.fields.repo,
        dir |-> pkg.name,
        iconUrl |-> iconUrl,
        readmeUrl |-> readmeUrl,
        created_at |-> commitDates.created_at,
        last_updated |-> commitDates.last_updated,
        error |-> Join(errors, <<", ">>)]
  ELSE
    [kind |-> "record",
     name |-> pkg.name,
     error |-> <<"Missing manifest">>,
     iconUrl |-> << >>,
     created_at |-> << >>,
     last_updated |-> << >>]

\* the record built from a manifest (or from its absence) and the commit dates:
\* the part retrievePackageData and retrievePackageDetails share word for word
BuildRecord(pkg, manifest, commitDates, net) ==
  IF Truthy(manifest) THEN
    LET errors0 == validateManifest(manifest)
        iconUrl == fetchIconUrl(pkg.name, manifest)
        readmeUrl == getValidReadmeUrl(manifest.fields.repo, net.readmeMain, net.readmeMaster)
        errors == IF ~Truthy(readmeUrl) THEN Append(errors0, <<"Missing README">>) ELSE errors0
    IN [kind |-> "record",
        name |-> OrElse(manifest.fields.name, pkg.name),
        id |-> manifest.fields.id,
        description |-> manifest.fields.description,
        author |-> manifest.fields.author,
        repo |-> manifest.fields.repo,
        dir |-> pkg.name,
        iconUrl |-> iconUrl,
        readmeUrl |-> readmeUrl,
        created_at |-> commitDates.created_at,
        last_updated |-> commitDates.last_updated,
        error |-> Join(errors, <<", ">>)]
  ELSE
    [kind |-> "record",
     name |-> pkg.name,
     error |-> <<"Missing manifest">>,
     iconUrl |-> << >>,
     created_at |-> commitDates.created_at,
     last_updated |-> commitDates.last_updated]

\* every listing entry is taken for a directory
retrievePackageDataAnyType(pkg, net) ==
  Return(BuildRecord(pkg, fetchManifest(net.manifest), fetchCommitDates(net.commits), net))

\* retrievePackageData of fetch-plugins-data.js: the outcome of one process call,
\* null for an entry that is not a directory, else
\* the record built from its manifest, its commit dates and its README probes
retrievePackageData(pkg, net) ==
  IF pkg.type # "dir" THEN Return(Null)
  ELSE Return(BuildRecord(pkg, fetchManifest(net.manifest), fetchCommitDates(net.commits), net))

\* the requests retrievePackageData issues, in order: the README probes only
\* when there is a manifest (fetchIconUrl only builds a URL)
RequestsOfPackage(pkg, net) ==
  IF pkg.type # "dir" THEN << >>
  ELSE <<"manifest", "commits">>
       \o (IF Truthy(fetchManifest(net.manifest))
             THEN ReadmeProbes(net.readmeMain, net.readmeMaster) ELSE << >>)

\* fetchManifest of update-catalog-index.mjs: a plain fetch, null on every failure
fetchManifestIndex(res) ==
  IF res.kind = "rejected" THEN Null
  ELSE IF ~Ok(res) THEN Null
  ELSE IF res.body.kind = "notjson" THEN Null
  ELSE res.body

\* fetchCommitDates of update-catalog-index.mjs
fetchCommitDatesIndex(res) ==
  IF res.kind = "rejected" THEN NoDates
  ELSE IF ~Ok(res) THEN NoDates
  ELSE IF res.body.kind = "notjson" THEN NoDates
  ELSE IF res.body.kind # "array" \/ Len(res.body.items) = 0 THEN NoDates
  ELSE [created_at |-> res.body.items[Len(res.body.items)],
        last_updated |-> res.body.items[1]]

\* retrievePackageDetails of update-catalog-index.mjs
retrievePackageDetails(pkg, net) ==
  IF pkg.type # "dir" THEN Return(Null)
  ELSE Return(BuildRecord(pkg, fetchManifestIndex(net.manifest),
                          fetchCommitDatesIndex(net.commits), net))

(***************************************************************************)
(* The state of one run.                                                   *)
(***************************************************************************)
VARIABLES
  script,         \* "fetch": fetch-plugins-data.js, "index": update-catalog-index.mjs
  args,           \* process.argv.slice(2)
  moduleMaxItems, \* the module-level `let maxItems` set by the argument parsing
  maxItems,       \* the maxItems the pool reads
  packages,       \* the directory listing
  idx,            \* the shared cursor
  count,          \* process calls that returned
  errorOccurred,  \* the stop flag of worker()
  results,        \* the sparse results array: index -> value or Undefined
  workers,        \* each worker: awaiting the process call of myIdx, or exited
  mainPc,         \* where main is
  written,        \* << >> before the output file is written, then <<its array>>
  log,            \* the console lines the claims are about
  \* history of the run, read by the properties only
  claimed,        \* index -> how many times a worker claimed it
  stored,         \* index -> how many times results[index] was assigned
  produced,       \* index -> the outcome of its process call, once settled
  settled,        \* process calls that returned or threw so far
  signal,         \* << >>, then <<what the pool looked like at the first rate-limit throw>>
  limited,        \* the requests of the run that were answered with 403 or 429
  \* one function of the scripts called on its own
  call,           \* the function and its arguments, or NoCall
  ret,            \* NotReturned, then what the call returned
  \* update-gitignore.sh
  gitignore,      \* the content of .gitignore
  lastRun,        \* the last invocation of the script: its mode and what it printed
  \* the generated pages
  modal,          \* the README modal of the plugins page, its timers and its fetches
  table           \* the plugins table of generate-plugins-table-2.js and its sort state

vars == <<script, args, moduleMaxItems, maxItems, packages, idx, count, errorOccurred,
          results, workers, mainPc, written, log, claimed, stored, produced, settled, signal,
          limited, call, ret, gitignore, lastRun, modal, table>>

pageVars == <<modal, table>>

shellVars == <<gitignore, lastRun>>

libVars == <<call, ret, shellVars, pageVars>>

NoCall == [fn |-> "none"]
NotReturned == [kind |-> "pending"]
Returned(v) == [kind |-> "returned", value |-> v]

\* a text file: its lines, and whether the last of them lacks its newline
TextFile(lines, open) == [lines |-> lines, open |-> open]
EmptyFile == TextFile(<< >>, FALSE)
NoRun == [mode |-> "none", before |-> "none", out |-> "none"]

ShellIdle ==
  /\ gitignore = EmptyFile
  /\ lastRun = NoRun

\* no page is open
NoPage == [kind |-> "none"]

PageIdle ==
  /\ modal = NoPage
  /\ table = NoPage

poolVars == <<idx, count, errorOccurred, results, workers, claimed, stored, produced,
              settled, signal>>

N == Len(packages)
Indices == 0..(N - 1)
\* one worker more than CONCURRENCY is started
WorkersOneMore == 1..(CONCURRENCY + 1)

\* Array(CONCURRENCY).fill(): the workers of the pool
Workers == 1..CONCURRENCY

Pkg(i) == packages[i + 1]
Exited == [pc |-> "exited", myIdx |-> -1]
Awaiting(i) == [pc |-> "await", myIdx |-> i]
Pending == [kind |-> "pending"]

(***************************************************************************)
(* The pool: worker() of fetch-plugins-data.js and the inline worker of    *)
(* update-catalog-index.mjs.                                               *)
(***************************************************************************)
\* the loop never looks at the stop flag
LoopConditionAlways(err) == TRUE

\* while (!errorOccurred)
LoopCondition(err) == ~err

\* the claim guard without its maxItems test
CursorExhaustedListOnly(i, n, m) == i >= n

\* the cursor is taken for exhausted one entry before the end of the listing
CursorExhaustedEarly(i, n, m) == i + 1 >= n \/ (NumDefined(m) /\ i >= m[1])

\* idx >= packages.length || (maxItems !== undefined && idx >= maxItems)
CursorExhausted(i, n, m) == i >= n \/ (NumDefined(m) /\ i >= m[1])

\* const myIdx = idx : the cursor is read but not advanced
AfterClaimStale(i) == i

\* const myIdx = idx++ : the cursor after the claim
AfterClaim(i) == i + 1

\* results.push(result): the value lands behind the values stored so far
StoreResultPush(res, myIdx, result) ==
  IF Truthy(result)
    THEN [res EXCEPT ![Cardinality({i \in DOMAIN res : res[i] # Undefined})] = result]
    ELSE res

\* if (result) results[myIdx] = result
StoreResult(res, myIdx, result) ==
  IF Truthy(result) THEN [res EXCEPT ![myIdx] = result] ELSE res

\* if (maxItems && count >= maxItems) break
StopEarly(m, c) == NumTruthy(m) /\ c >= m[1]

\* every error is taken for a rate limit
IsRateLimitErrorAny(message) == TRUE

\* only the first of the two patterns is tested
IsRateLimitErrorOnlyRateLimited(message) == Includes(message, <<"Rate limited">>)

\* error.message.includes("Rate limited") || error.message.includes("Too many requests")
IsRateLimitError(message) ==
  Includes(message, <<"Rate limited">>) \/ Includes(message, <<"Too many requests">>)

\* history only: the process call ended with an error of the kind the pool
\* is to stop on
SignalsRateLimit(out) ==
  /\ out.kind = "throw"
  /\ \/ Includes(out.message, <<"Rate limited">>)
     \/ Includes(out.message, <<"Too many requests">>)

\* results[myIdx] = {name: pkg.name, error: error.message}
Placeholder(pkg, message) == [kind |-> "record", name |-> pkg.name, error |-> message]

\* the head of a worker's loop, run up to its await: the worker leaves, or it
\* claims the cursor's index and starts the process call.  ps is the part of
\* the pool a claim touches.
LoopHead(w, ps, err, n, m) ==
  IF ~LoopCondition(err) \/ CursorExhausted(ps.idx, n, m)
    THEN [ps EXCEPT !.workers[w] = Exited]
    ELSE [idx |-> AfterClaim(ps.idx),
          workers |-> [ps.workers EXCEPT ![w] = Awaiting(ps.idx)],
          claimed |-> [ps.claimed EXCEPT ![ps.idx] = @ + 1]]

RECURSIVE StartWorkers(_, _, _, _)
\* Array(CONCURRENCY).fill().map(processPackages): the workers are called one
\* after the other and each runs to its first await
StartWorkers(w, ps, n, m) ==
  IF w \notin Workers THEN ps
  ELSE StartWorkers(w + 1, LoopHead(w, ps, FALSE, n, m), n, m)

\* the pool right after worker() (or the inline pool) has started its workers
StartPool(pkgs, m) ==
  LET ps0 == [idx |-> 0,
              workers |-> [w \in Workers |-> [pc |-> "idle", myIdx |-> -1]],
              claimed |-> [i \in 0..(Len(pkgs) - 1) |-> 0]]
      ps == StartWorkers(1, ps0, Len(pkgs), m)
  IN /\ idx' = ps.idx
     /\ workers' = ps.workers
     /\ claimed' = ps.claimed
     /\ count' = 0
     /\ errorOccurred' = FALSE
     /\ results' = [i \in 0..(Len(pkgs) - 1) |-> Undefined]
     /\ stored' = [i \in 0..(Len(pkgs) - 1) |-> 0]
     /\ produced' = [i \in 0..(Len(pkgs) - 1) |-> Pending]
     /\ settled' = 0
     /\ signal' = << >>

\* the continuation of worker w of worker() once its process call settled
\* with `out` (fetch-plugins-data.js lines 117-145, then the loop head)
WorkerContinues(w, out) ==
  LET myIdx == workers[w].myIdx
      pkg == Pkg(myIdx)
      returned == out.kind = "return"
      rate == ~returned /\ IsRateLimitError(out.message)
      results1 == IF returned THEN StoreResult(results, myIdx, out.value)
                  ELSE IF rate THEN results
                  ELSE [results EXCEPT ![myIdx] = Placeholder(pkg, out.message)]
      count1 == IF returned THEN count + 1 ELSE count
      err1 == errorOccurred \/ rate
      break == rate \/ (returned /\ StopEarly(maxItems, count1))
      ps0 == [idx |-> idx, workers |-> workers, claimed |-> claimed]
      ps == IF break THEN [ps0 EXCEPT !.workers[w] = Exited]
            ELSE LoopHead(w, ps0, err1, N, maxItems)
  IN /\ results' = results1
     /\ count' = count1
     /\ errorOccurred' = err1
     /\ idx' = ps.idx
     /\ workers' = ps.workers
     /\ claimed' = ps.claimed
     /\ stored' = IF (returned /\ Truthy(out.value)) \/ (~returned /\ ~rate)
                  THEN [stored EXCEPT ![myIdx] = @ + 1] ELSE stored
     /\ produced' = [produced EXCEPT ![myIdx] = out]
     /\ settled' = settled + 1
     /\ signal' = IF SignalsRateLimit(out) /\ signal = << >>
                  THEN << [k |-> myIdx, settledBefore |-> settled,
                           inFlight |-> { workers[v].myIdx :
                                            v \in { u \in Workers : workers[u].pc = "await" } }
                                        \ {myIdx}] >>
                  ELSE signal

\* the continuation of the inline worker of update-catalog-index.mjs once
\* retrievePackageDetails returned (lines 72-81, then the loop head); the
\* loop is while (true) and there is no stop flag
InlineWorkerContinues(w, out) ==
  LET myIdx == workers[w].myIdx
      results1 == StoreResult(results, myIdx, out.value)
      count1 == count + 1
      ps0 == [idx |-> idx, workers |-> workers, claimed |-> claimed]
      ps == IF StopEarly(maxItems, count1) THEN [ps0 EXCEPT !.workers[w] = Exited]
            ELSE LoopHead(w, ps0, FALSE, N, maxItems)
  IN /\ results' = results1
     /\ count' = count1
     /\ errorOccurred' = errorOccurred
     /\ idx' = ps.idx
     /\ workers' = ps.workers
     /\ claimed' = ps.claimed
     /\ stored' = IF Truthy(out.value) THEN [stored EXCEPT ![myIdx] = @ + 1] ELSE stored
     /\ produced' = [produced EXCEPT ![myIdx] = out]
     /\ settled' = settled + 1
     /\ signal' = signal

\* Promise.race in place of Promise.all: the first worker to leave resolves the pool
PoolResolvedAny == \E w \in Workers : workers[w].pc = "exited"

\* Promise.all resolved: every worker has left
PoolResolved == \A w \in Workers : workers[w].pc = "exited"

RECURSIVE FilterFrom(_, _, _)
FilterFrom(res, i, n) ==
  IF i >= n THEN << >>
  ELSE (IF Truthy(res[i]) THEN <<res[i]>> ELSE << >>) \o FilterFrom(res, i + 1, n)

\* results.filter(Boolean): the truthy entries in index order
FilterBoolean(res, n) == FilterFrom(res, 0, n)

(***************************************************************************)
(* Aggregation: the sort of update-catalog-index.mjs and the files.        *)
(***************************************************************************)
RECURSIVE LocaleCompareFrom(_, _, _)
LocaleCompareFrom(a, b, i) ==
  IF i > Len(a) /\ i > Len(b) THEN 0
  ELSE IF i > Len(a) THEN -1
  ELSE IF i > Len(b) THEN 1
  ELSE IF a[i] < b[i] THEN -1
  ELSE IF a[i] > b[i] THEN 1
  ELSE LocaleCompareFrom(a, b, i + 1)

\* a.localeCompare(b) on date strings: code unit by code unit
LocaleCompare(a, b) == LocaleCompareFrom(a, b, 1)

\* the comparator of the sort (update-catalog-index.mjs lines 92-99)
\* the dates are compared the other way round
CompareLastUpdatedAscending(a, b) ==
  IF a.last_updated = << >> /\ b.last_updated = << >> THEN 0
  ELSE IF a.last_updated = << >> THEN 1
  ELSE IF b.last_updated = << >> THEN -1
  ELSE LocaleCompare(a.last_updated, b.last_updated)

CompareLastUpdated(a, b) ==
  IF a.last_updated = << >> /\ b.last_updated = << >> THEN 0
  ELSE IF a.last_updated = << >> THEN 1
  ELSE IF b.last_updated = << >> THEN -1
  ELSE LocaleCompare(b.last_updated, a.last_updated)

RECURSIVE InsertSorted(_, _, _)
\* x goes behind every element that does not compare greater than it
InsertSorted(x, sorted, i) ==
  IF i > Len(sorted) THEN Append(sorted, x)
  ELSE IF CompareLastUpdated(sorted[i], x) > 0
    THEN SubSeq(sorted, 1, i - 1) \o <<x>> \o SubSeq(sorted, i, Len(sorted))
    ELSE InsertSorted(x, sorted, i + 1)

RECURSIVE SortFrom(_, _, _)
SortFrom(arr, i, acc) ==
  IF i > Len(arr) THEN acc ELSE SortFrom(arr, i + 1, InsertSorted(arr[i], acc, 1))

\* Array.prototype.sort with the comparator: a stable sort
SortByLastUpdated(arr) == SortFrom(arr, 1, << >>)

\* results.length of the sparse array: one past the last assigned index
ArrayLength(res, n) ==
  IF \A i \in 0..(n - 1) : res[i] = Undefined THEN 0
  ELSE 1 + CHOOSE i \in 0..(n - 1) :
             res[i] # Undefined /\ \A j \in (i + 1)..(n - 1) : res[j] = Undefined

\* JSON.stringify of the sparse array: a hole is written as null
JsonStringifySparse(res, n) ==
  [i \in 1..ArrayLength(res, n) |-> IF res[i - 1] = Undefined THEN Null ELSE res[i - 1]]

File(name, data) == [file |-> name, data |-> data]

StoppedMessage == "Processing stopped due to an error or rate limit."
CaughtMessage == "Error caught in main:"

(***************************************************************************)
(* Command line (both scripts, lines 27-40 / 25-38).  A token is a         *)
(* sequence of characters.                                                 *)
(***************************************************************************)
TokMax == <<"-", "-", "m", "a", "x">>
TokVerbose == <<"-", "v">>
TokHelp == <<"-", "h">>
TokHelpLong == <<"-", "-", "h", "e", "l", "p">>

DigitValue(c) ==
  CASE c = "0" -> 0 [] c = "1" -> 1 [] c = "2" -> 2 [] c = "3" -> 3 [] c = "4" -> 4
    [] c = "5" -> 5 [] c = "6" -> 6 [] c = "7" -> 7 [] c = "8" -> 8 [] c = "9" -> 9
    [] OTHER -> -1

RECURSIVE ParseDigits(_, _, _)
ParseDigits(tok, i, acc) ==
  IF i > Len(tok) \/ DigitValue(tok[i]) < 0 THEN acc
  ELSE ParseDigits(tok, i + 1, 10 * acc + DigitValue(tok[i]))

\* parseInt(tok, 10): an optional sign and the longest run of digits; NaN
\* (<< >>) when there is no digit
parseInt(tok) ==
  LET neg == Len(tok) > 0 /\ tok[1] = "-"
      first == IF Len(tok) > 0 /\ tok[1] \in {"-", "+"} THEN 2 ELSE 1
  IN IF first > Len(tok) \/ DigitValue(tok[first]) < 0 THEN << >>
     ELSE IF neg THEN << 0 - ParseDigits(tok, first, 0) >>
     ELSE << ParseDigits(tok, first, 0) >>

\* args.indexOf(tok): the 0-based position of the first occurrence, or -1
IndexOf(a, tok) ==
  IF \E i \in 1..Len(a) : a[i] = tok
    THEN (CHOOSE i \in 1..Len(a) : a[i] = tok /\ \A j \in 1..(i - 1) : a[j] # tok) - 1
    ELSE -1

\* the module-level maxItems after the argument parsing
ParseMaxItems(a) ==
  LET maxIdx == IndexOf(a, TokMax) IN
    IF maxIdx # -1 /\ Len(a) > maxIdx + 1 THEN
      LET val == parseInt(a[maxIdx + 2]) IN
        IF val # << >> /\ val[1] > 0 THEN val ELSE NumUndefined
    ELSE NumUndefined

HelpRequested(a) == IndexOf(a, TokHelpLong) # -1 \/ IndexOf(a, TokHelp) # -1

(***************************************************************************)
(* Inputs: listings, network answers, outcomes of a process call,          *)
(* command lines.                                                          *)
(***************************************************************************)
PackageName(i) == <<"pkg", ToString(i)>>

\* every listing of a length up to MaxPackages, each entry a directory or a file
Listings ==
  UNION { { [i \in 1..n |-> [name |-> PackageName(i - 1), type |-> t[i]]] :
              t \in [1..n -> {"dir", "file"}] } : n \in 0..MaxPackages }

\* the listings whose entries are all directories
DirListings == { l \in Listings : \A i \in 1..Len(l) : l[i].type = "dir" }

Date1 == <<2023, 6, 15>>
Date2 == <<2024, 1, 1>>

FullManifest ==
  JsonObject(ManifestFields(<<"Plugin">>, <<"plugin-id">>, <<"A plugin">>,
                            <<"someone">>, <<"owner/repo">>, <<"icon.png">>))

NoBody == NotJson

\* the answers one package's requests get in a run of the pool
PoolNets ==
  { Net(m, c, r, Response(200, NoBody)) :
      m \in {Response(200, FullManifest), Response(404, NoBody), Response(403, NoBody), Rejected},
      c \in {Response(200, JsonArray(<<Date2, Date1>>)), Response(429, NoBody)},
      r \in {Response(200, NoBody)} }

GoodNet ==
  Net(Response(200, FullManifest), Response(200, JsonArray(<<Date2, Date1>>)),
      Response(200, NoBody), Response(200, NoBody))

\* what an arbitrary processFunction handed to worker() may do with a package:
\* return an object, return a falsy value, or throw
ProcessOutcomes(pkg) ==
  { Return(BuildRecord(pkg, fetchManifest(GoodNet.manifest),
                       fetchCommitDates(GoodNet.commits), GoodNet)),
    Return(Null),
    Throw(RateLimitMessage("process", 403)),
    Throw(<<"Too many requests">>),
    Throw(<<"socket", "hang up">>) }

MaxItemsValues == {NumUndefined} \cup { <<m>> : m \in 0..MaxMaxItems }

\* the values the argument parsing can leave in the module-level maxItems
ParsedMaxItemsValues == {NumUndefined} \cup { <<m>> : m \in 1..MaxMaxItems }

(***************************************************************************)
(* Actions.                                                                *)
(***************************************************************************)
inputVars == <<script, args, moduleMaxItems, maxItems, packages>>

\* worker(packages, maxItems, verbose, processFunction) is called
\* (fetch-plugins-data.js lines 101-149)
CallWorker ==
  /\ script = "fetch"
  /\ mainPc = "start"
  /\ StartPool(packages, maxItems)
  /\ mainPc' = "pool"
  /\ UNCHANGED <<inputVars, written, log, limited, libVars>>

\* the inline pool is started (update-catalog-index.mjs lines 54-89)
StartInline ==
  /\ script = "index"
  /\ mainPc = "start"
  /\ StartPool(packages, maxItems)
  /\ mainPc' = "pool"
  /\ UNCHANGED <<inputVars, written, log, limited, libVars>>

\* the process call of some worker of worker() settles; the function is any function
ProcessSettles ==
  /\ script = "fetch"
  /\ mainPc = "pool"
  /\ \E w \in Workers :
       /\ workers[w].pc = "await"
       /\ \E out \in ProcessOutcomes(Pkg(workers[w].myIdx)) : WorkerContinues(w, out)
  /\ UNCHANGED <<inputVars, mainPc, written, log, limited, libVars>>

\* the retrievePackageDetails call of some inline worker returns
DetailsSettles ==
  /\ script = "index"
  /\ mainPc = "pool"
  /\ \E w \in Workers :
       /\ workers[w].pc = "await"
       /\ \E net \in PoolNets :
            InlineWorkerContinues(w, retrievePackageDetails(Pkg(workers[w].myIdx), net))
  /\ UNCHANGED <<inputVars, mainPc, written, log, limited, libVars>>

\* main of fetch-plugins-data.js after `await worker(...)` (lines 71-82)
MainWrites ==
  /\ script = "fetch"
  /\ mainPc = "pool"
  /\ PoolResolved
  /\ log' = IF errorOccurred THEN log \cup {StoppedMessage} ELSE log
  /\ written' = Append(written, File("plugins-data.json", FilterBoolean(results, N)))
  /\ mainPc' = "done"
  /\ UNCHANGED <<inputVars, poolVars, limited, libVars>>

\* main of update-catalog-index.mjs after the pool (lines 91-123)
IndexWrites ==
  /\ script = "index"
  /\ mainPc = "pool"
  /\ PoolResolved
  /\ written' = written \o
       << File("index.html", SortByLastUpdated(FilterBoolean(results, N))),
          File("results.json", JsonStringifySparse(results, N)) >>
  /\ mainPc' = "done"
  /\ UNCHANGED <<inputVars, poolVars, log, limited, libVars>>

PoolIdle ==
  /\ idx = 0
  /\ count = 0
  /\ errorOccurred = FALSE
  /\ results = << >>
  /\ workers = [w \in Workers |-> [pc |-> "idle", myIdx |-> -1]]
  /\ claimed = << >>
  /\ stored = << >>
  /\ produced = << >>
  /\ settled = 0
  /\ signal = << >>

\* a pool about to be started on any listing with any maxItems; the entry
\* types are varied for retrievePackageDetails, the only function that reads them
Init ==
  /\ script \in {"fetch", "index"}
  /\ args = << >>
  /\ maxItems \in (IF script = "fetch" THEN MaxItemsValues ELSE ParsedMaxItemsValues)
  /\ moduleMaxItems = (IF script = "fetch" THEN NumUndefined ELSE maxItems)
  /\ packages \in (IF script = "fetch" THEN DirListings ELSE Listings)
  /\ mainPc = "start"
  /\ written = << >>
  /\ log = {}
  /\ limited = {}
  /\ PoolIdle
  /\ call = NoCall
  /\ ret = NotReturned
  /\ ShellIdle
  /\ PageIdle

Next ==
  \/ CallWorker
  \/ StartInline
  \/ ProcessSettles
  \/ DetailsSettles
  \/ MainWrites
  \/ IndexWrites

Spec == Init /\ [][Next]_vars

\* the pools when every process call that was started eventually settles
SpecLive ==
  /\ Init
  /\ [][Next]_vars
  /\ WF_vars(ProcessSettles)
  /\ WF_vars(DetailsSettles)

(***************************************************************************)
(* A run of fetch-plugins-data.js from its command line.                   *)
(***************************************************************************)
CommandLines ==
  { << >>,
    <<TokVerbose>>,
    <<TokMax>>,
    <<TokMax, <<"1">> >>,
    <<TokMax, <<"2">> >>,
    <<TokMax, <<"0">> >>,
    <<TokMax, <<"x">> >>,
    <<TokVerbose, TokMax, <<"2", "x">> >>,
    <<TokHelp>>,
    <<TokMax, <<"2">>, TokHelpLong>> }

\* the options object of the call main({verbose}) (line 47)
MainCallOptions(verbose, moduleMax) == [verbose |-> verbose]

\* the parameter maxItems of main({verbose = false, maxItems} = {}) (line 58):
\* it shadows the module-level variable
MainMaxItems(options) ==
  IF "maxItems" \in DOMAIN options THEN options.maxItems ELSE NumUndefined

\* what the listing request may get
ListingResponses ==
  { Response(200, JsonArray(l)) : l \in Listings }
  \cup { Response(403, NoBody), Response(429, NoBody), Response(404, NoBody),
         Response(200, NotJson), Rejected }

\* history only: the request was answered with HTTP 403 or 429
RateLimitStatus(res) == res.kind = "response" /\ res.status \in {403, 429}

\* the top level of the script up to the first await of main (lines 27-61)
ParseArgs ==
  /\ script = "fetch"
  /\ mainPc = "parse"
  /\ IF HelpRequested(args)
       THEN /\ mainPc' = "exited"
            /\ UNCHANGED <<moduleMaxItems, maxItems>>
       ELSE /\ moduleMaxItems' = ParseMaxItems(args)
            /\ maxItems' = MainMaxItems(MainCallOptions(
                             IndexOf(args, TokVerbose) # -1, ParseMaxItems(args)))
            /\ mainPc' = "listing"
  /\ UNCHANGED <<script, args, packages, poolVars, written, log, limited, libVars>>

\* main after `await fetchPackageList(verbose)`: the listing, then worker(...)
\* up to its Promise.all; or the catch of main (lines 61-69, 84-86, 159-176)
ListingArrives ==
  /\ script = "fetch"
  /\ mainPc = "listing"
  /\ \E res \in ListingResponses :
       LET r == fetchWithCheck(res, "fetchPackageList") IN
         /\ limited' = limited \cup (IF RateLimitStatus(res) THEN {"listing"} ELSE {})
         /\ IF r.kind = "throw" \/ (Truthy(r.value) /\ r.value.body.kind = "notjson")
             THEN /\ log' = log \cup {CaughtMessage}
                  /\ mainPc' = "caught"
                  /\ UNCHANGED <<packages, poolVars, written>>
             ELSE LET data == IF Truthy(r.value) THEN r.value.body.items ELSE << >> IN
                    /\ packages' = data
                    /\ StartPool(data, maxItems)
                    /\ mainPc' = "pool"
                    /\ UNCHANGED <<written, log>>
  /\ UNCHANGED <<script, args, moduleMaxItems, maxItems, libVars>>

\* the retrievePackageData call of some worker settles
DataSettles ==
  /\ script = "fetch"
  /\ mainPc = "pool"
  /\ \E w \in Workers :
       /\ workers[w].pc = "await"
       /\ \E net \in PoolNets :
            /\ WorkerContinues(w, retrievePackageData(Pkg(workers[w].myIdx), net))
            /\ limited' = limited \cup
                 (IF Pkg(workers[w].myIdx).type # "dir" THEN {}
                  ELSE (IF RateLimitStatus(net.manifest) THEN {"manifest"} ELSE {})
                       \cup (IF RateLimitStatus(net.commits) THEN {"commits"} ELSE {}))
  /\ UNCHANGED <<inputVars, mainPc, written, log, libVars>>

InitMain ==
  /\ script = "fetch"
  /\ args \in CommandLines
  /\ moduleMaxItems = NumUndefined
  /\ maxItems = NumUndefined
  /\ packages = << >>
  /\ mainPc = "parse"
  /\ written = << >>
  /\ log = {}
  /\ limited = {}
  /\ PoolIdle
  /\ call = NoCall
  /\ ret = NotReturned
  /\ ShellIdle
  /\ PageIdle

NextMain ==
  \/ ParseArgs
  \/ ListingArrives
  \/ DataSettles
  \/ MainWrites

SpecMain == InitMain /\ [][NextMain]_vars

(***************************************************************************)
(* The functions of the scripts, each called on its own on inputs drawn    *)
(* from bounded sets.                                                      *)
(***************************************************************************)
\* the longest array handed to the sort
MaxSortLen == 4

runVars == <<script, args, moduleMaxItems, maxItems, packages, poolVars, mainPc,
             written, log, limited>>

DirEntry(i) == [name |-> PackageName(i), type |-> "dir"]

LastUpdatedValues == {<< >>, Date1, Date2}

\* arrays of records as results.filter(Boolean) holds them: record i is the one
\* of package i, with any of the dates
SortInputs ==
  UNION { { [i \in 1..n |->
               BuildRecord(DirEntry(i - 1), Null,
                           [created_at |-> d[i], last_updated |-> d[i]], GoodNet)] :
              d \in [1..n -> LastUpdatedValues] } : n \in 0..MaxSortLen }

SortCalls == { [fn |-> "sort", arr |-> a] : a \in SortInputs }

\* results.filter(Boolean).sort(...) of update-catalog-index.mjs (lines 91-99)
CallSort ==
  /\ call.fn = "sort"
  /\ ret = NotReturned
  /\ ret' = Returned(SortByLastUpdated(call.arr))
  /\ UNCHANGED <<runVars, call, shellVars, pageVars>>

\* the manifests a package may have: each field present, or absent / empty
ManifestBodies ==
  { JsonObject(ManifestFields(n, <<"plugin-id">>, d, a, r, i)) :
      n \in {<< >>, <<"Plugin">>}, d \in {<< >>, <<"A plugin">>},
      a \in {<< >>, <<"someone">>}, r \in {<< >>, <<"owner/repo">>},
      i \in {<< >>, <<"icon.png">>} }

ValidateCalls == { [fn |-> "validateManifest", manifest |-> m] : m \in ManifestBodies }

\* validateManifest(manifest) (both scripts)
CallValidateManifest ==
  /\ call.fn = "validateManifest"
  /\ ret = NotReturned
  /\ ret' = Returned(validateManifest(call.manifest))
  /\ UNCHANGED <<runVars, call, shellVars, pageVars>>

\* what a README probe may be answered
ProbeResponses ==
  {Response(200, NoBody), Response(404, NoBody), Response(500, NoBody), Rejected}

ReadmeCalls ==
  { [fn |-> "getValidReadmeUrl", repo |-> <<"owner/repo">>, resMain |-> a, resMaster |-> b] :
      a \in ProbeResponses, b \in ProbeResponses }

\* a call that returned v after issuing the requests rs
ReturnedAfter(v, rs) == [kind |-> "returned", value |-> v, requests |-> rs]

\* getValidReadmeUrl(repo) (both scripts)
CallGetValidReadmeUrl ==
  /\ call.fn = "getValidReadmeUrl"
  /\ ret = NotReturned
  /\ ret' = ReturnedAfter(getValidReadmeUrl(call.repo, call.resMain, call.resMaster),
                          ReadmeProbes(call.resMain, call.resMaster))
  /\ UNCHANGED <<runVars, call, shellVars, pageVars>>

\* what the manifest request and the commits request may be answered
ManifestResponses ==
  { Response(200, m) : m \in ManifestBodies }
  \cup {Response(404, NoBody), Response(403, NoBody), Response(200, NotJson), Rejected}

CommitLists == { << >>, <<Date1>>, <<Date2, Date1>>, <<Date2, Date1, Date1>>, <<Date2, << >> >> }

CommitResponses ==
  { Response(200, JsonArray(l)) : l \in CommitLists }
  \cup {Response(200, JsonObject(<< >>)), Response(200, NotJson), Response(404, NoBody),
         Response(403, NoBody), Response(429, NoBody), Rejected}

FileEntry(i) == [name |-> PackageName(i), type |-> "file"]

RecordCalls ==
  { [fn |-> "retrievePackageData", pkg |-> DirEntry(0), net |-> Net(m, c, a, b)] :
      m \in ManifestResponses, c \in {Response(200, JsonArray(<<Date2, Date1>>)),
                                       Response(429, NoBody), Rejected},
      a \in ProbeResponses, b \in ProbeResponses }
  \cup { [fn |-> "retrievePackageData", pkg |-> FileEntry(0), net |-> GoodNet] }

\* retrievePackageData(pkg) of fetch-plugins-data.js
CallRetrievePackageData ==
  /\ call.fn = "retrievePackageData"
  /\ ret = NotReturned
  /\ ret' = ReturnedAfter(retrievePackageData(call.pkg, call.net).value,
                          RequestsOfPackage(call.pkg, call.net))
  /\ UNCHANGED <<runVars, call, shellVars, pageVars>>

CommitDatesCalls ==
  { [fn |-> "fetchCommitDates", script |-> sc, res |-> c] :
      sc \in {"fetch", "index"}, c \in CommitResponses }

\* fetchCommitDates(packageName) of either script
CallFetchCommitDates ==
  /\ call.fn = "fetchCommitDates"
  /\ ret = NotReturned
  /\ ret' = Returned(IF call.script = "fetch" THEN fetchCommitDates(call.res)
                                               ELSE fetchCommitDatesIndex(call.res))
  /\ UNCHANGED <<runVars, call, shellVars, pageVars>>

\* the statuses a request may be answered with
FetchStatuses == {200, 204, 299, 304, 400, 401, 403, 404, 429, 500, 503}

FetchCallers == {"fetchPackageList", "fetchManifest", "fetchCommitDates"}

FetchCalls ==
  { [fn |-> "fetchWithCheck", res |-> r, caller |-> c] :
      r \in { Response(st, NoBody) : st \in FetchStatuses } \cup {Rejected},
      c \in FetchCallers }

\* fetchWithCheck(url, caller) of fetch-plugins-data.js
CallFetchWithCheck ==
  /\ call.fn = "fetchWithCheck"
  /\ ret = NotReturned
  /\ ret' = Returned(fetchWithCheck(call.res, call.caller))
  /\ UNCHANGED <<runVars, call, shellVars, pageVars>>

LibCalls ==
  SortCalls \cup ValidateCalls \cup ReadmeCalls \cup RecordCalls \cup CommitDatesCalls
  \cup FetchCalls

InitLib ==
  /\ script = "none"
  /\ args = << >>
  /\ moduleMaxItems = NumUndefined
  /\ maxItems = NumUndefined
  /\ packages = << >>
  /\ mainPc = "lib"
  /\ written = << >>
  /\ log = {}
  /\ limited = {}
  /\ PoolIdle
  /\ call \in LibCalls
  /\ ret = NotReturned
  /\ ShellIdle
  /\ PageIdle

NextLib ==
  \/ CallSort
  \/ CallValidateManifest
  \/ CallGetValidReadmeUrl
  \/ CallRetrievePackageData
  \/ CallFetchCommitDates
  \/ CallFetchWithCheck

SpecLib == InitLib /\ [][NextLib]_vars

(***************************************************************************)
(* update-gitignore.sh.  A line is a sequence of pieces; the three files   *)
(* are one-piece lines.                                                    *)
(***************************************************************************)
\* the longest .gitignore the runs start from
MaxGitignoreLines == 3

\* FILES=("index.html" "plugins-table.html" "plugins-data.json")
FILES == <<"index.html", "plugins-table.html", "plugins-data.json">>

\* grep -Fxq "$1" "$GITIGNORE": some line is exactly the text; a last line
\* without newline is a line too
is_ignored(f, file) == \E p \in 1..Len(file.lines) : file.lines[p] = <<f>>

\* echo "$f" >> "$GITIGNORE": the text and a newline are appended to the bytes
\* of the file, so they continue a last line that has no newline
EchoAppend(f, file) ==
  IF file.open
    THEN TextFile([file.lines EXCEPT ![Len(file.lines)] = @ \o <<f>>], FALSE)
    ELSE TextFile(Append(file.lines, <<f>>), FALSE)

RECURSIVE DevFrom(_, _)
\* the dev branch over FILES[k..]: each file is appended unless it is a line
DevFrom(k, file) ==
  IF k > Len(FILES) THEN file
  ELSE DevFrom(k + 1, IF is_ignored(FILES[k], file) THEN file
                                                     ELSE EchoAppend(FILES[k], file))

\* the lines grep -Fxv "$f" selects: those that are not exactly the text
GrepInverted(f, lines) == SelectSeq(lines, LAMBDA l : l # <<f>>)

\* grep -Fxv "$f" "$TMP" > "$TMP.new" && mv "$TMP.new" "$TMP": grep exits 1 when
\* it selects no line, and then the mv is skipped and $TMP keeps its content
GrepAndMove(f, tmp) ==
  IF GrepInverted(f, tmp.lines) = << >> THEN tmp
  ELSE TextFile(GrepInverted(f, tmp.lines), FALSE)

RECURSIVE ProdFrom(_, _)
ProdFrom(k, tmp) ==
  IF k > Len(FILES) THEN tmp ELSE ProdFrom(k + 1, GrepAndMove(FILES[k], tmp))

\* the no-argument report: dev when every file is ignored
ReportedMode(file) ==
  IF \A k \in 1..Len(FILES) : is_ignored(FILES[k], file) THEN "dev" ELSE "prod"

OtherLines == { <<"node_modules">>, <<"*.log">> }

GitignoreLines == { <<FILES[k]>> : k \in 1..Len(FILES) } \cup OtherLines

\* the .gitignore files a run may find
GitignoreFiles ==
  { TextFile(l, o) :
      l \in UNION { [1..n -> GitignoreLines] : n \in 0..MaxGitignoreLines },
      o \in BOOLEAN } \ { TextFile(<< >>, TRUE) }

shellRest == <<runVars, call, ret, pageVars>>

\* ./update-gitignore.sh dev (lines 42-59)
RunDev ==
  /\ mainPc = "shell"
  /\ gitignore' = DevFrom(1, gitignore)
  /\ lastRun' = [mode |-> "dev", before |-> lastRun.mode, out |-> "none"]
  /\ UNCHANGED shellRest

\* ./update-gitignore.sh prod, or any other argument (lines 60-74); cmp -s
\* compares the bytes, so the file is replaced whenever $TMP differs
RunProd ==
  /\ mainPc = "shell"
  /\ gitignore' = ProdFrom(1, gitignore)
  /\ lastRun' = [mode |-> "prod", before |-> lastRun.mode, out |-> "none"]
  /\ UNCHANGED shellRest

\* ./update-gitignore.sh (lines 17-32)
RunReport ==
  /\ mainPc = "shell"
  /\ lastRun' = [mode |-> "report", before |-> lastRun.mode, out |-> ReportedMode(gitignore)]
  /\ UNCHANGED <<shellRest, gitignore>>

InitShell ==
  /\ script = "gitignore"
  /\ args = << >>
  /\ moduleMaxItems = NumUndefined
  /\ maxItems = NumUndefined
  /\ packages = << >>
  /\ mainPc = "shell"
  /\ written = << >>
  /\ log = {}
  /\ limited = {}
  /\ PoolIdle
  /\ call = NoCall
  /\ ret = NotReturned
  /\ gitignore \in GitignoreFiles
  /\ lastRun = NoRun
  /\ PageIdle

NextShell ==
  \/ RunDev
  \/ RunProd
  \/ RunReport

SpecShell == InitShell /\ [][NextShell]_vars

(***************************************************************************)
(* The README modal of the generated plugins page: showReadmeModal and     *)
(* closeReadmeModal, their timers and their fetches.                       *)
(***************************************************************************)
\* showReadmeModal calls made on one page, and pending close timers
MaxShows == 2

\* the readmeUrl of a link of the page: "" when the package has no README
NoUrl == ""
ReadmeLinks == {NoUrl, "readmeA", "readmeB"}

\* what modalBody.innerHTML holds
BodyEmpty == [k |-> "empty"]
BodyLoading == [k |-> "loading"]
BodyNotFound == [k |-> "notfound"]
BodyError == [k |-> "error"]
BodyReadme(url) == [k |-> "readme", url |-> url]

\* what the title holds: "README", or the first heading of a README
TitleDefault == [k |-> "default"]
TitleOf(url) == [k |-> "heading", url |-> url]

\* how the fetch of a README may settle: text with or without a heading, or a rejection
FetchOutcomes == {"heading", "plain", "reject"}

\* the page as generated: the modal is hidden by its style sheet
ModalLoaded ==
  [kind |-> "modal", display |-> "none", visibility |-> "unset", animate |-> FALSE,
   body |-> BodyLoading, title |-> TitleDefault, calls |-> << >>,
   animateTimers |-> 0, closeTimers |-> 0]

\* showReadmeModal(readmeUrl) up to its return: the modal is reset, two
\* timers are set, and the README is requested unless the url is falsy
showReadmeModal(m, url) ==
  [m EXCEPT
     !.display = "flex",
     !.visibility = IF url = NoUrl THEN "visible" ELSE "hidden",
     !.animate = (url = NoUrl),
     !.body = IF url = NoUrl THEN BodyNotFound ELSE BodyEmpty,
     !.title = TitleDefault,
     !.animateTimers = @ + 1,
     !.calls = Append(@, [url |-> url,
                          fetch |-> IF url = NoUrl THEN "none" ELSE "pending",
                          loading |-> IF url = NoUrl THEN "cleared" ELSE "pending",
                          shown |-> IF url = NoUrl THEN BodyNotFound ELSE BodyEmpty])]

\* the body the settled fetch of call i writes
SettledBody(url, outcome) == IF outcome = "reject" THEN BodyError ELSE BodyReadme(url)

\* the .then / .catch of the fetch of call i: its own timer is cleared and
\* the modal is written, whichever call the modal was last opened by
FetchSettled(m, i, outcome) ==
  [m EXCEPT
     !.visibility = "visible",
     !.animate = TRUE,
     !.title = IF outcome = "heading" THEN TitleOf(m.calls[i].url) ELSE @,
     !.body = SettledBody(m.calls[i].url, outcome),
     !.calls[i].fetch = "settled",
     !.calls[i].loading = IF @ = "pending" THEN "cleared" ELSE @,
     !.calls[i].shown = SettledBody(m.calls[i].url, outcome)]

\* the 500 ms timer of call i
LoadingFired(m, i) ==
  [m EXCEPT !.visibility = "visible", !.body = BodyLoading, !.calls[i].loading = "fired"]

\* closeReadmeModal() up to its return
closeReadmeModal(m) == [m EXCEPT !.animate = FALSE, !.closeTimers = @ + 1]

modalRest == <<runVars, call, ret, shellVars, table>>

\* a README link is clicked
ShowReadmeModal ==
  /\ modal.kind = "modal"
  /\ Len(modal.calls) < MaxShows
  /\ \E url \in ReadmeLinks : modal' = showReadmeModal(modal, url)
  /\ UNCHANGED modalRest

\* the fetch of some call settles
ReadmeFetchSettles ==
  /\ modal.kind = "modal"
  /\ \E i \in 1..Len(modal.calls) :
       /\ modal.calls[i].fetch = "pending"
       /\ \E outcome \in FetchOutcomes : modal' = FetchSettled(modal, i, outcome)
  /\ UNCHANGED modalRest

\* the oldest pending "Loading..." timer fires
LoadingTimerFires ==
  /\ modal.kind = "modal"
  /\ \E i \in 1..Len(modal.calls) :
       /\ modal.calls[i].loading = "pending"
       /\ \A j \in 1..(i - 1) : modal.calls[j].loading # "pending"
       /\ modal' = LoadingFired(modal, i)
  /\ UNCHANGED modalRest

\* a 10 ms timer of showReadmeModal fires
AnimateTimerFires ==
  /\ modal.kind = "modal"
  /\ modal.animateTimers > 0
  /\ modal' = [modal EXCEPT !.animate = TRUE, !.animateTimers = @ - 1]
  /\ UNCHANGED modalRest

\* the close button is clicked
CloseReadmeModal ==
  /\ modal.kind = "modal"
  /\ modal.closeTimers < MaxShows
  /\ modal' = closeReadmeModal(modal)
  /\ UNCHANGED modalRest

\* a 200 ms timer of closeReadmeModal fires
CloseTimerFires ==
  /\ modal.kind = "modal"
  /\ modal.closeTimers > 0
  /\ modal' = [modal EXCEPT !.display = "none", !.closeTimers = @ - 1]
  /\ UNCHANGED modalRest

InitModal ==
  /\ script = "page"
  /\ args = << >>
  /\ moduleMaxItems = NumUndefined
  /\ maxItems = NumUndefined
  /\ packages = << >>
  /\ mainPc = "page"
  /\ written = << >>
  /\ log = {}
  /\ limited = {}
  /\ PoolIdle
  /\ call = NoCall
  /\ ret = NotReturned
  /\ ShellIdle
  /\ modal = ModalLoaded
  /\ table = NoPage

NextModal ==
  \/ ShowReadmeModal
  \/ ReadmeFetchSettles
  \/ LoadingTimerFires
  \/ AnimateTimerFires
  \/ CloseReadmeModal
  \/ CloseTimerFires

SpecModal == InitModal /\ [][NextModal]_vars

(***************************************************************************)
(* The sortable table of the page written by generate-plugins-table-2.js:  *)
(* the sortTable handler of the column headers.                            *)
(***************************************************************************)
\* rows of the table, and sortTable calls made on one page
MaxRows == 3
MaxSortCalls == 3

\* the columns a header of which is clicked, in the order of getColumns()
columns == <<"iconUrl", "name", "description", "author">>
SortKeys == {"name", "author"}

\* columns.findIndex(c => c.key === key) + 1
ColIdx(key) ==
  IF \E i \in 1..Len(columns) : columns[i] = key
  THEN CHOOSE i \in 1..Len(columns) : columns[i] = key /\ \A j \in 1..(i - 1) : columns[j] # key
  ELSE 0

\* cell texts, as sequences of UTF-16 code units: "a", "B", " c"
CellTexts == { <<97>>, <<66>>, <<32, 99>> }

\* String.prototype.trim on these texts: leading and trailing spaces go
RECURSIVE TrimStart(_)
TrimStart(t) == IF t # << >> /\ Head(t) = 32 THEN TrimStart(Tail(t)) ELSE t
RECURSIVE TrimEnd(_)
TrimEnd(t) ==
  IF t # << >> /\ t[Len(t)] = 32 THEN TrimEnd(SubSeq(t, 1, Len(t) - 1)) ELSE t
Trim(t) == TrimEnd(TrimStart(t))

\* String.prototype.toLowerCase on ASCII
ToLowerCase(t) == [i \in 1..Len(t) |-> IF t[i] \in 65..90 THEN t[i] + 32 ELSE t[i]]

\* the < of two strings: by code units, a proper prefix first
RECURSIVE TextLess(_, _)
TextLess(a, b) ==
  IF b = << >> THEN FALSE
  ELSE IF a = << >> THEN TRUE
  ELSE IF Head(a) # Head(b) THEN Head(a) < Head(b)
  ELSE TextLess(Tail(a), Tail(b))

\* td:nth-child(colIdx).textContent.trim().toLowerCase() of a row
CellKey(row, key) == ToLowerCase(Trim(row.cells[ColIdx(key)]))

\* the comparator handed to rows.sort
RowCompare(a, b, key, asc) ==
  IF TextLess(CellKey(a, key), CellKey(b, key)) THEN (IF asc THEN -1 ELSE 1)
  ELSE IF TextLess(CellKey(b, key), CellKey(a, key)) THEN (IF asc THEN 1 ELSE -1)
  ELSE 0

\* Array.prototype.sort is stable: a row goes behind the rows it does not precede
RECURSIVE InsertRow(_, _, _, _)
InsertRow(row, sorted, key, asc) ==
  IF sorted = << >> THEN <<row>>
  ELSE IF RowCompare(row, Head(sorted), key, asc) < 0 THEN <<row>> \o sorted
  ELSE <<Head(sorted)>> \o InsertRow(row, Tail(sorted), key, asc)
RECURSIVE SortRows(_, _, _)
SortRows(rows, key, asc) ==
  IF rows = << >> THEN << >>
  ELSE InsertRow(rows[Len(rows)], SortRows(SubSeq(rows, 1, Len(rows) - 1), key, asc), key, asc)

\* the direction sortTable(key) takes given the page's sortKey and sortAsc
NextSortAsc(sortKey, sortAsc, key) == IF sortKey = key THEN ~sortAsc ELSE TRUE

\* window.sortTable(key); lastKey and lastAsc remember the previous call
sortTable(t, key) ==
  [t EXCEPT
     !.sortAsc = NextSortAsc(t.sortKey, t.sortAsc, key),
     !.sortKey = key,
     !.rows = SortRows(t.rows, key, NextSortAsc(t.sortKey, t.sortAsc, key)),
     !.lastKey = key,
     !.lastAsc = NextSortAsc(t.sortKey, t.sortAsc, key),
     !.calls = @ + 1]

\* the cells of one row: an icon cell without text, then the texts
RowCells == { <<(<< >>), n, << >>, a>> : n \in CellTexts, a \in CellTexts }

\* the tables a page can be generated with; rows are told apart by id
Tables ==
  UNION { { [i \in 1..n |-> [id |-> i, cells |-> f[i]]] : f \in [1..n -> RowCells] }
          : n \in 1..MaxRows }

\* the page as loaded: sortKey = 'name', sortAsc = true, no call made
TableLoaded(rows) ==
  [kind |-> "table", rows |-> rows, sortKey |-> "name", sortAsc |-> TRUE,
   lastKey |-> "none", lastAsc |-> TRUE, calls |-> 0]

tableRest == <<runVars, call, ret, shellVars, modal>>

\* a column header is clicked
SortTable ==
  /\ table.kind = "table"
  /\ table.calls < MaxSortCalls
  /\ \E key \in SortKeys : table' = sortTable(table, key)
  /\ UNCHANGED tableRest

InitTable ==
  /\ script = "page"
  /\ args = << >>
  /\ moduleMaxItems = NumUndefined
  /\ maxItems = NumUndefined
  /\ packages = << >>
  /\ mainPc = "page"
  /\ written = << >>
  /\ log = {}
  /\ limited = {}
  /\ PoolIdle
  /\ call = NoCall
  /\ ret = NotReturned
  /\ ShellIdle
  /\ modal = NoPage
  /\ \E rows \in Tables : table = TableLoaded(rows)

NextTable == SortTable

SpecTable == InitTable /\ [][NextTable]_vars

(***************************************************************************)
(* Properties.                                                             *)
(***************************************************************************)
Min(a, b) == IF a < b THEN a ELSE b

\* the indices some worker has claimed
ClaimedItems == { i \in DOMAIN claimed : claimed[i] > 0 }

\* some process call of the run threw a rate-limit error
RateLimitThrown == \E i \in DOMAIN produced : SignalsRateLimit(produced[i])

\* the i-th (from 0) smallest element of a set of numbers
NthOf(S, i) == CHOOSE x \in S : Cardinality({ y \in S : y < x }) = i

\* data lists the truthy entries of results by increasing index
InListingOrder(data) ==
  LET D == { i \in DOMAIN results : Truthy(results[i]) } IN
    /\ Len(data) = Cardinality(D)
    /\ \A p \in 1..Len(data) : data[p] = results[NthOf(D, p - 1)]

\* C1: whenever results[i] is defined it is the value produced for
\* packages[i], the record its process call returned or the placeholder of the
\* error it threw, whatever the completion order; so the array main writes
\* (results.filter(Boolean)) lists the records in listing order, and
\* results.json of update-catalog-index.mjs holds results[i] at position i.
C1_PositionalResults ==
  /\ \A i \in DOMAIN results :
       results[i] # Undefined =>
         /\ produced[i] # Pending
         /\ \/ produced[i].kind = "return" /\ results[i] = produced[i].value
            \/ /\ produced[i].kind = "throw"
               /\ results[i] = [kind |-> "record", name |-> Pkg(i).name,
                                error |-> produced[i].message]
  /\ (script = "fetch" /\ mainPc = "done") => InListingOrder(written[1].data)
  /\ (script = "index" /\ mainPc = "done") =>
       \A p \in 1..Len(written[2].data) :
         written[2].data[p] = (IF results[p - 1] = Undefined THEN Null ELSE results[p - 1])

\* C1 witness: entry 0 is still in flight while entries 1 and 2, claimed
\* after it, are already stored: completion order differs from listing order.
C1_Witness ==
  /\ mainPc = "pool"
  /\ N >= 3
  /\ \E w \in Workers : workers[w].pc = "await" /\ workers[w].myIdx = 0
  /\ Truthy(results[1])
  /\ Truthy(results[2])

\* C2: no index is claimed twice, no two workers hold the same index, the
\* cursor never decreases and no position of results is assigned twice.
C2_NoDoubleClaim ==
  [][/\ idx' >= idx
     /\ \A i \in DOMAIN claimed' : claimed'[i] <= 1
     /\ \A i \in DOMAIN stored' : stored'[i] <= 1
     /\ \A v, w \in Workers :
          (v # w /\ workers'[v].pc = "await" /\ workers'[w].pc = "await")
            => workers'[v].myIdx # workers'[w].myIdx]_vars

\* C2 witness: a run over a listing longer than the pool, so that workers
\* claimed again, has ended with every entry claimed and stored.
C2_Witness ==
  /\ mainPc = "done"
  /\ N > CONCURRENCY
  /\ \A i \in Indices : claimed[i] = 1 /\ stored[i] = 1

\* C3: once a process call has thrown a rate-limit error the stop flag is
\* set, and while the flag is set the cursor does not move, no index is
\* claimed and a worker whose state changes has left the loop.
C3_StopFlag ==
  [][/\ (signal' # << >>) => errorOccurred'
     /\ errorOccurred =>
          /\ errorOccurred'
          /\ idx' = idx
          /\ claimed' = claimed
          /\ \A w \in Workers :
               workers'[w] # workers[w] => workers'[w].pc = "exited"]_vars

\* C3 witness: the pool has resolved after a rate-limit stop with entries
\* left unclaimed, and a process call that settled after the signal.
C3_Witness ==
  /\ errorOccurred
  /\ signal # << >>
  /\ PoolResolved
  /\ idx < N
  /\ (NumDefined(maxItems) => idx < maxItems[1])
  /\ settled > signal[1].settledBefore + 1

\* C4 (as claimed): a 403 or 429 on the listing, a manifest or a commit
\* history request makes the run stop: errorOccurred is true and main prints
\* that processing stopped.
C4_RateLimitIsFatal ==
  (mainPc \in {"done", "caught"} /\ limited # {})
    => (errorOccurred /\ StoppedMessage \in log)

\* C5 (as claimed): if item k (counted from 1) is the first to signal a rate
\* limit, at most min(N, k + C) entries have been claimed when the run ends.
C5_OriginalBound ==
  (mainPc = "done" /\ signal # << >>)
    => Cardinality(ClaimedItems) <= Min(N, (signal[1].k + 1) + CONCURRENCY)

\* C5 (amended): if d process calls had settled before the first rate-limit
\* signal, at most min(N, d + C) entries are ever claimed, and the pool
\* returns errorOccurred = TRUE, which a run that never saw a rate limit
\* (a maxItems stop included) does not.
C5_AmendedBound ==
  /\ signal # << >> =>
       /\ Cardinality(ClaimedItems) <= Min(N, signal[1].settledBefore + CONCURRENCY)
       /\ errorOccurred
  /\ (mainPc = "done" /\ signal = << >>) => ~errorOccurred

\* C5 witness: a rate-limit stop that reached the amended bound with entries
\* left over, after other process calls had settled.
C5_Witness ==
  /\ mainPc = "done"
  /\ signal # << >>
  /\ signal[1].settledBefore > 0
  /\ Cardinality(ClaimedItems) = signal[1].settledBefore + CONCURRENCY
  /\ Cardinality(ClaimedItems) < N

\* C6: when main writes plugins-data.json every claimed entry has run to
\* completion, every object a process call returned is in results, and every
\* entry of results is in the written array.
C6_NothingDiscarded ==
  (script = "fetch" /\ mainPc = "done") =>
    /\ \A i \in Indices : claimed[i] > 0 => produced[i] # Pending
    /\ \A i \in Indices :
         (produced[i].kind = "return" /\ Truthy(produced[i].value))
           => results[i] = produced[i].value
    /\ \A i \in Indices :
         results[i] # Undefined =>
           \E p \in 1..Len(written[1].data) : written[1].data[p] = results[i]

\* C6 witness: an entry that was in flight when the stop flag was set has its
\* record in the written file.
C6_Witness ==
  /\ script = "fetch"
  /\ mainPc = "done"
  /\ signal # << >>
  /\ \E i \in signal[1].inFlight :
       /\ produced[i].kind = "return"
       /\ Truthy(results[i])
       /\ \E p \in 1..Len(written[1].data) : written[1].data[p] = results[i]

\* C7: when a process call of worker() throws an error that is no rate-limit
\* error, the placeholder {name, error: message} is stored at its index, the
\* stop flag is left as it was, and the same worker claims the cursor's index
\* (or leaves, when the cursor is exhausted or the flag was already set).
C7_OtherErrorContinues ==
  [][\A w \in Workers :
       (/\ script = "fetch"
        /\ mainPc = "pool"
        /\ workers[w].pc = "await"
        /\ produced[workers[w].myIdx] = Pending
        /\ produced'[workers[w].myIdx].kind = "throw"
        /\ ~SignalsRateLimit(produced'[workers[w].myIdx]))
       =>
       LET i == workers[w].myIdx IN
         /\ results'[i] = [kind |-> "record", name |-> Pkg(i).name,
                           error |-> produced'[i].message]
         /\ errorOccurred' = errorOccurred
         /\ IF ~errorOccurred /\ idx < N /\ (NumDefined(maxItems) => idx < maxItems[1])
              THEN workers'[w] = [pc |-> "await", myIdx |-> idx] /\ idx' = idx + 1
              ELSE workers'[w].pc = "exited" /\ idx' = idx]_vars

\* C7 witness: a run in which entry 0 threw an ordinary error went on to
\* claim every entry of a listing longer than the pool, and ended unstopped.
C7_Witness ==
  /\ script = "fetch"
  /\ mainPc = "done"
  /\ N > CONCURRENCY
  /\ produced[0].kind = "throw"
  /\ ~SignalsRateLimit(produced[0])
  /\ results[0] = [kind |-> "record", name |-> Pkg(0).name, error |-> produced[0].message]
  /\ ~errorOccurred
  /\ idx = N

\* C8: worker() returns errorOccurred = TRUE exactly when some process call
\* threw a rate-limit error; a run ended by maxItems or by the end of the
\* listing returns FALSE.
C8_FlagIffRateLimit ==
  (script = "fetch" /\ mainPc \in {"pool", "done"} /\ PoolResolved)
    => (errorOccurred <=> RateLimitThrown)

\* C8 witness: the pool has resolved because maxItems was reached before the
\* end of the listing, other errors were thrown, and the flag is FALSE.
C8_Witness ==
  /\ script = "fetch"
  /\ mainPc = "done"
  /\ NumDefined(maxItems)
  /\ maxItems[1] > 0
  /\ maxItems[1] < N
  /\ idx = maxItems[1]
  /\ produced[0].kind = "throw"
  /\ ~errorOccurred

\* C9 (as claimed): run with `--max M`, M a positive integer, the script
\* claims at most M listing entries.
C9_MaxOptionLimits ==
  \A M \in 1..9 :
    (/\ mainPc \in {"pool", "done"}
     /\ \E i \in 1..(Len(args) - 1) : args[i] = TokMax /\ args[i + 1] = <<ToString(M)>>)
    => Cardinality(ClaimedItems) <= M

\* C10: with maxItems = M no index >= M is ever claimed and at most
\* min(M, N) entries are claimed; when the run ends without a rate-limit
\* error exactly the indices below min(M, N) were processed, each once.
C10_MaxItemsCap ==
  NumDefined(maxItems) =>
    /\ \A i \in DOMAIN claimed : i >= maxItems[1] => claimed[i] = 0
    /\ Cardinality(ClaimedItems) <= Min(maxItems[1], N)
    /\ (mainPc = "done" /\ ~RateLimitThrown) =>
         \A i \in Indices :
           IF i < Min(maxItems[1], N)
             THEN claimed[i] = 1 /\ produced[i] # Pending
             ELSE claimed[i] = 0 /\ produced[i] = Pending

\* C10 witness: a run without rate limit has ended at a maxItems below the
\* length of the listing and above the size of the pool.
C10_Witness ==
  /\ mainPc = "done"
  /\ NumDefined(maxItems)
  /\ maxItems[1] < N
  /\ maxItems[1] > CONCURRENCY
  /\ idx = maxItems[1]
  /\ ~RateLimitThrown

\* the shapes of the records of plugins-data.json
FullRecordFields ==
  {"kind", "name", "id", "description", "author", "repo", "dir", "iconUrl",
   "readmeUrl", "created_at", "last_updated", "error"}

MissingManifestFields == {"kind", "name", "error", "iconUrl", "created_at", "last_updated"}

PlaceholderFields == {"kind", "name", "error"}

\* C11: on a run of fetch-plugins-data.js that ends with no rate-limit
\* stop and no maxItems cap, results holds exactly one record for every listing
\* entry of type "dir" (a full record, a "Missing manifest" record or a
\* {name, error} placeholder, stored once and naming that entry) and nothing
\* for an entry of any other type.
C11_OneRecordPerDir ==
  (script = "fetch" /\ mainPc = "done" /\ ~errorOccurred /\ ~NumDefined(maxItems)) =>
    \A i \in Indices :
      IF Pkg(i).type = "dir"
        THEN /\ stored[i] = 1
             /\ results[i].kind = "record"
             /\ DOMAIN results[i] \in
                  {FullRecordFields, MissingManifestFields, PlaceholderFields}
             /\ IF "dir" \in DOMAIN results[i]
                  THEN results[i].dir = Pkg(i).name
                  ELSE results[i].name = Pkg(i).name
        ELSE /\ stored[i] = 0
             /\ results[i] = Undefined

\* C11 witness: a run over a full-length listing that mixes directories and
\* files has ended, with a full record and a "Missing manifest" record stored.
C11_Witness ==
  /\ script = "fetch"
  /\ mainPc = "done"
  /\ ~errorOccurred
  /\ N = MaxPackages
  /\ \E i, j, k \in Indices :
       /\ Pkg(i).type = "file"
       /\ Pkg(j).type = "dir" /\ DOMAIN results[j] = FullRecordFields
       /\ Pkg(k).type = "dir" /\ DOMAIN results[k] = MissingManifestFields

\* C12: every run of fetch-plugins-data.js in which some request (the
\* directory listing included) was answered with HTTP 403 or 429 still writes
\* plugins-data.json, holding the records resolved so far (possibly none).
C12_RateLimitStillWrites ==
  (script = "fetch" /\ mainPc \in {"done", "caught"} /\ limited # {}) =>
    /\ Len(written) = 1
    /\ written[1].file = "plugins-data.json"
    /\ InListingOrder(written[1].data)

\* the position of x in the array a
PositionIn(a, x) == CHOOSE p \in 1..Len(a) : a[p] = x

\* C13: the sort of update-catalog-index.mjs returns a permutation of
\* the filtered records in which every record with a non-empty last_updated
\* precedes every record without one, the non-empty ones are in descending
\* order of last_updated, and records with equal keys (the empty ones
\* included) keep their relative input order.
C13_SortOrder ==
  (call.fn = "sort" /\ ret # NotReturned) =>
    LET a == call.arr
        s == ret.value
    IN /\ Len(s) = Len(a)
       /\ \A p \in 1..Len(a) : \E q \in 1..Len(s) : s[q] = a[p]
       /\ \A p, q \in 1..Len(s) :
            p < q =>
              /\ ~(s[p].last_updated = << >> /\ s[q].last_updated # << >>)
              /\ (s[p].last_updated # << >> /\ s[q].last_updated # << >>)
                   => LocaleCompare(s[p].last_updated, s[q].last_updated) >= 0
              /\ s[p].last_updated = s[q].last_updated
                   => PositionIn(a, s[p]) < PositionIn(a, s[q])

\* C13 witness: a sorted array that had to be reordered: its input began
\* with an undated record and had the older date before the newer one, and it
\* holds two records of the same date.
C13_Witness ==
  /\ call.fn = "sort"
  /\ ret # NotReturned
  /\ Len(call.arr) = MaxSortLen
  /\ call.arr[1].last_updated = << >>
  /\ \E p, q \in 1..Len(call.arr) :
       p < q /\ call.arr[p].last_updated = Date1 /\ call.arr[q].last_updated = Date2
  /\ \E p, q \in 1..Len(call.arr) :
       p < q /\ call.arr[p].last_updated = Date2 /\ call.arr[q].last_updated = Date2
  /\ ret.value # call.arr

\* C14: the array fetch-plugins-data.js writes to plugins-data.json
\* (sortedResults) is ordered by last_updated, newest first, with the records
\* that have no last_updated behind those that have one.
C14_WrittenSorted ==
  (script = "fetch" /\ mainPc = "done") =>
    LET s == written[1].data IN
      \A p, q \in 1..Len(s) :
        p < q =>
          /\ ~(s[p].last_updated = << >> /\ s[q].last_updated # << >>)
          /\ (s[p].last_updated # << >> /\ s[q].last_updated # << >>)
               => LocaleCompare(s[p].last_updated, s[q].last_updated) >= 0

\* C15: no array a script serializes as its aggregate (plugins-data.json;
\* the rows of index.html and results.json of update-catalog-index.mjs) holds an
\* undefined or null placeholder: the entries skipped for not being a
\* directory are dropped before output.
C15_NoPlaceholderWritten ==
  \A f \in 1..Len(written) :
    \A p \in 1..Len(written[f].data) : Truthy(written[f].data[p])

\* the warnings of validateManifest, in the order of its tests, and their fields
ManifestWarnings ==
  << <<"Missing package description">>, <<"Missing package author">>,
     <<"Missing package repository">>, <<"Missing package icon">> >>

WarnedFields == <<"description", "author", "repo", "icon">>

\* C16: validateManifest returns exactly one warning for each of
\* description, author, repo, icon that is absent or empty, none for a field
\* that is present, and the warnings come in that fixed order.
C16_ValidateManifest ==
  (call.fn = "validateManifest" /\ ret # NotReturned) =>
    LET w == ret.value
        m == call.manifest.fields
    IN /\ \A k \in 1..4 :
            Cardinality({ p \in 1..Len(w) : w[p] = ManifestWarnings[k] })
              = (IF m[WarnedFields[k]] = << >> THEN 1 ELSE 0)
       /\ \A p \in 1..Len(w) : \E k \in 1..4 : w[p] = ManifestWarnings[k]
       /\ \A p, q \in 1..Len(w) :
            p < q => \E j, k \in 1..4 :
                       j < k /\ w[p] = ManifestWarnings[j] /\ w[q] = ManifestWarnings[k]

\* C16 witness: a manifest without author and icon got the two warnings
\* "Missing package author", "Missing package icon", in that order.
C16_Witness ==
  /\ call.fn = "validateManifest"
  /\ ret # NotReturned
  /\ call.manifest.fields.description # << >>
  /\ call.manifest.fields.author = << >>
  /\ call.manifest.fields.repo # << >>
  /\ call.manifest.fields.icon = << >>
  /\ ret.value = << <<"Missing package author">>, <<"Missing package icon">> >>

\* C17: getValidReadmeUrl returns the main-branch URL when the main
\* probe is answered 2xx, and then master is not probed; the master-branch
\* URL when main is answered non-2xx and master 2xx; null when both are
\* answered non-2xx.  Whenever it returned null the record of the package
\* carries the warning "Missing README".
C17_ReadmeProbing ==
  /\ (call.fn = "getValidReadmeUrl" /\ ret # NotReturned) =>
       LET a == call.resMain
           b == call.resMaster
       IN /\ (a.kind = "response" /\ Ok(a)) =>
               /\ ret.value = ReadmeUrl(call.repo, "main")
               /\ ret.requests = <<"main">>
          /\ (a.kind = "response" /\ ~Ok(a) /\ b.kind = "response" /\ Ok(b)) =>
               ret.value = ReadmeUrl(call.repo, "master")
          /\ (a.kind = "response" /\ ~Ok(a) /\ b.kind = "response" /\ ~Ok(b)) =>
               ret.value = Null
  /\ (call.fn = "retrievePackageData" /\ ret # NotReturned
        /\ "readmeUrl" \in DOMAIN ret.value /\ ret.value.readmeUrl = Null) =>
       Includes(ret.value.error, <<"Missing README">>)

\* C17 witness: main answered 404 and master 200 gave the master URL.
C17_Witness ==
  /\ call.fn = "getValidReadmeUrl"
  /\ ret # NotReturned
  /\ call.resMain = Response(404, NoBody)
  /\ call.resMaster = Response(200, NoBody)
  /\ ret.value = ReadmeUrl(call.repo, "master")
  /\ ret.requests = <<"main", "master">>

\* C18: when the main-branch probe fails with a transport error (its
\* fetch rejects), getValidReadmeUrl still probes master and returns the
\* master-branch URL if that probe succeeds; it returns null only if both fail.
C18_MasterAfterTransportError ==
  (call.fn = "getValidReadmeUrl" /\ ret # NotReturned /\ call.resMain.kind = "rejected") =>
    /\ ret.requests = <<"main", "master">>
    /\ ret.value = (IF call.resMaster.kind = "response" /\ Ok(call.resMaster)
                      THEN ReadmeUrl(call.repo, "master") ELSE Null)

\* the manifest request got no usable answer: a non-2xx response, a
\* transport error, or a body that is not JSON
ManifestUnobtainable(res) ==
  \/ res.kind = "rejected"
  \/ res.kind = "response" /\ ~Ok(res)
  \/ res.kind = "response" /\ Ok(res) /\ res.body.kind = "notjson"

\* the dates a commits answer carries: those of its first and last element
\* when it is a 2xx JSON array with elements, else none
DatesCarried(res) ==
  IF /\ res.kind = "response"
     /\ res.status \in 200..299
     /\ res.body.kind = "array"
     /\ res.body.items # << >>
    THEN [created_at |-> res.body.items[Len(res.body.items)],
          last_updated |-> res.body.items[1]]
    ELSE [created_at |-> << >>, last_updated |-> << >>]

\* C19: for a directory entry whose manifest cannot be obtained (non-2xx
\* response, transport error, JSON parse failure) retrievePackageData returns
\* exactly {name: the directory name, error: "Missing manifest", iconUrl: "",
\* created_at, last_updated}, the dates being those of the commits answer;
\* the record has no other manifest-derived field and no README probe is issued.
C19_MissingManifestRecord ==
  (/\ call.fn = "retrievePackageData"
   /\ ret # NotReturned
   /\ call.pkg.type = "dir"
   /\ ManifestUnobtainable(call.net.manifest)) =>
    /\ ret.value = [kind |-> "record",
                    name |-> call.pkg.name,
                    error |-> <<"Missing manifest">>,
                    iconUrl |-> << >>,
                    created_at |-> DatesCarried(call.net.commits).created_at,
                    last_updated |-> DatesCarried(call.net.commits).last_updated]
    /\ ret.requests = <<"manifest", "commits">>

\* C19 witness: the manifest body was not JSON, the commits were listed, the
\* README of the repository would have answered 200: the record has the dates.
C19_Witness ==
  /\ call.fn = "retrievePackageData"
  /\ ret # NotReturned
  /\ call.pkg.type = "dir"
  /\ call.net.manifest = Response(200, NotJson)
  /\ call.net.commits = Response(200, JsonArray(<<Date2, Date1>>))
  /\ call.net.readmeMain = Response(200, NoBody)
  /\ ret.value.error = <<"Missing manifest">>
  /\ ret.value.last_updated = Date2
  /\ ret.value.created_at = Date1

\* C20: fetchCommitDates never throws: it returns empty dates when the
\* answer is non-2xx, not a JSON array, an empty array, or the request fails;
\* otherwise last_updated is the committer date of element 0 and created_at
\* that of the last element, so a one-commit list gives created_at = last_updated.
C20_CommitDates ==
  (call.fn = "fetchCommitDates" /\ ret # NotReturned) =>
    /\ ret.value = DatesCarried(call.res)
    /\ (/\ call.res.kind = "response"
        /\ Ok(call.res)
        /\ call.res.body.kind = "array"
        /\ Len(call.res.body.items) = 1) =>
         /\ ret.value.created_at = ret.value.last_updated
         /\ ret.value.last_updated = call.res.body.items[1]

\* C20 witness: fetch-plugins-data.js got a list of three commits, newest
\* first, and took the first for last_updated and the last for created_at.
C20_Witness ==
  /\ call.fn = "fetchCommitDates"
  /\ call.script = "fetch"
  /\ ret # NotReturned
  /\ call.res = Response(200, JsonArray(<<Date2, Date1, Date1>>))
  /\ ret.value = [created_at |-> Date1, last_updated |-> Date2]

\* C21: fetchWithCheck classifies each answer into exactly one outcome:
\* a 2xx status returns the response; status 403 or 429 throws an error whose
\* message contains "Rate limited"; any other non-2xx status returns null
\* without throwing; a transport failure propagates an error that the pool's
\* test does not take for a rate limit.
C21_FetchClassification ==
  (call.fn = "fetchWithCheck" /\ ret # NotReturned) =>
    LET r == call.res
        out == ret.value
    IN /\ (r.kind = "response" /\ r.status \in 200..299) => out = Return(r)
       /\ (r.kind = "response" /\ r.status \in {403, 429}) =>
            /\ out.kind = "throw"
            /\ Includes(out.message, <<"Rate limited">>)
       /\ (r.kind = "response" /\ r.status \notin (200..299) \cup {403, 429}) =>
            out = Return(Null)
       /\ r.kind = "rejected" =>
            /\ out.kind = "throw"
            /\ out.message = r.message
            /\ ~Includes(out.message, <<"Rate limited">>)
            /\ ~Includes(out.message, <<"Too many requests">>)

\* C21 witness: a request of fetchCommitDates answered 429 threw the
\* rate-limit error carrying the caller and the status.
C21_Witness ==
  /\ call.fn = "fetchWithCheck"
  /\ ret # NotReturned
  /\ call.caller = "fetchCommitDates"
  /\ call.res.kind = "response"
  /\ call.res.status = 429
  /\ ret.value = Throw(RateLimitMessage("fetchCommitDates", 429))

\* the listing entries whose process call has been started and has not settled
InFlight == { i \in DOMAIN claimed : claimed[i] > 0 /\ produced[i] = Pending }

\* C22: at every moment of a run at most CONCURRENCY process calls are
\* in flight (10 in the scripts), and at most min(CONCURRENCY, N) for a
\* listing of N entries, whatever the listing length and completion order.
C22_BoundedInFlight ==
  /\ Cardinality(InFlight) <= Min(CONCURRENCY, N)
  /\ Cardinality({ w \in Workers : workers[w].pc = "await" }) = Cardinality(InFlight)

\* C22 witness: in the middle of a run over a listing longer than the pool,
\* after some calls have settled, the pool is full.
C22_Witness ==
  /\ mainPc = "pool"
  /\ N > CONCURRENCY
  /\ settled > 0
  /\ Cardinality(InFlight) = CONCURRENCY

RECURSIVE WarningsFrom(_, _)
WarningsFrom(m, k) ==
  IF k > 4 THEN << >>
  ELSE (IF m[WarnedFields[k]] = << >> THEN <<ManifestWarnings[k]>> ELSE << >>)
       \o WarningsFrom(m, k + 1)

\* the texts separated by ", "
RECURSIVE CommaSeparated(_)
CommaSeparated(texts) ==
  IF texts = << >> THEN << >>
  ELSE IF Len(texts) = 1 THEN texts[1]
  ELSE texts[1] \o <<", ">> \o CommaSeparated(Tail(texts))

\* one of the README probes that were issued was answered 2xx
ProbeSucceeded(net) ==
  /\ net.readmeMain.kind = "response"
  /\ \/ Ok(net.readmeMain)
     \/ net.readmeMaster.kind = "response" /\ Ok(net.readmeMaster)

\* C24: for a package whose manifest was obtained, the error field of
\* its record is the validation warnings in fixed order, followed by
\* "Missing README" when no README URL was found, joined with ", "; error is
\* "" exactly when description, author, repo and icon are all present and a
\* README probe succeeded; name falls back to the directory name; iconUrl is
\* "" exactly when the manifest has no icon.
C24_RecordErrorField ==
  (/\ call.fn = "retrievePackageData"
   /\ ret # NotReturned
   /\ call.pkg.type = "dir"
   /\ ~ManifestUnobtainable(call.net.manifest)) =>
    LET m == call.net.manifest.body.fields
        rec == ret.value
    IN /\ rec.error =
            CommaSeparated(WarningsFrom(m, 1)
                           \o (IF rec.readmeUrl = Null THEN << <<"Missing README">> >>
                                                        ELSE << >>))
       /\ rec.readmeUrl # Null <=> ProbeSucceeded(call.net)
       /\ rec.error = << >> <=>
            /\ m.description # << >> /\ m.author # << >>
            /\ m.repo # << >> /\ m.icon # << >>
            /\ ProbeSucceeded(call.net)
       /\ rec.name = (IF m.name # << >> THEN m.name ELSE call.pkg.name)
       /\ rec.iconUrl = << >> <=> m.icon = << >>

\* C24 witness: a manifest without name, author and icon, whose README
\* answered 404 on both branches.
C24_Witness ==
  /\ call.fn = "retrievePackageData"
  /\ ret # NotReturned
  /\ call.pkg.type = "dir"
  /\ DOMAIN ret.value = FullRecordFields
  /\ ret.value.name = call.pkg.name
  /\ ret.value.iconUrl = << >>
  /\ ret.value.error =
       <<"Missing package author", ", ", "Missing package icon", ", ", "Missing README">>
  /\ ret.requests = <<"manifest", "commits", "main", "master">>

\* C25: if every process call eventually returns or throws, every
\* worker eventually exits and the pool resolves; when no rate-limit error
\* occurred it has resolved only after every index below min(N, maxItems)
\* (below N without maxItems) has been processed to completion.
C25_PoolTerminates ==
  /\ (mainPc = "pool") ~> PoolResolved
  /\ []((mainPc \in {"pool", "done"} /\ PoolResolved /\ ~RateLimitThrown) =>
          \A i \in Indices :
            i < (IF NumDefined(maxItems) THEN Min(N, maxItems[1]) ELSE N) =>
              claimed[i] = 1 /\ produced[i] # Pending)

\* C25 witness: the pool has just resolved, main not yet resumed, after a
\* run over a full-length listing without maxItems and without rate limit in
\* which one call threw and the others returned.
C25_Witness ==
  /\ mainPc = "pool"
  /\ PoolResolved
  /\ N = MaxPackages
  /\ ~NumDefined(maxItems)
  /\ ~RateLimitThrown
  /\ settled = N
  /\ \E i \in Indices : produced[i].kind = "throw"

\* the record or placeholder r belongs to listing entry i
RecordOf(r, i) ==
  IF "dir" \in DOMAIN r THEN r.dir = Pkg(i).name ELSE r.name = Pkg(i).name

\* C26: the listing entry whose process call threw the rate-limit
\* error gets no entry in results, neither a record nor a {name, error}
\* placeholder, so it is absent from the written output, while items claimed
\* after it may be present.
C26_RateLimitedItemAbsent ==
  \A i \in DOMAIN produced :
    SignalsRateLimit(produced[i]) =>
      /\ results[i] = Undefined
      /\ stored[i] = 0
      /\ (script = "fetch" /\ mainPc = "done") =>
           \A p \in 1..Len(written[1].data) : ~RecordOf(written[1].data[p], i)

\* C26 witness: the call of entry 0 threw the rate-limit error; entry 1,
\* claimed after it, is in the written output and entry 0 is not.
C26_Witness ==
  /\ script = "fetch"
  /\ mainPc = "done"
  /\ N >= 2
  /\ SignalsRateLimit(produced[0])
  /\ \E p \in 1..Len(written[1].data) : RecordOf(written[1].data[p], 1)
  /\ \A p \in 1..Len(written[1].data) : ~RecordOf(written[1].data[p], 0)

\* C27: after update-gitignore.sh ran in prod mode none of index.html,
\* plugins-table.html, plugins-data.json is a whole line of .gitignore,
\* whatever .gitignore held before, and every other line is kept, unchanged
\* and in order.
C27_ProdRemovesAll ==
  [][lastRun'.mode = "prod" =>
       /\ \A k \in 1..Len(FILES) : ~is_ignored(FILES[k], gitignore')
       /\ gitignore'.lines =
            SelectSeq(gitignore.lines,
                      LAMBDA l : \A k \in 1..Len(FILES) : l # <<FILES[k]>>)]_vars

\* C28: after update-gitignore.sh ran in dev mode each of index.html,
\* plugins-table.html, plugins-data.json is a line of .gitignore and the
\* no-argument invocation reports "dev"; a second dev run leaves .gitignore as
\* it is; prod mode followed by the no-argument invocation reports "prod".
C28_DevIgnoresAll ==
  [][/\ lastRun'.mode = "dev" =>
          \A k \in 1..Len(FILES) : is_ignored(FILES[k], gitignore')
     /\ (lastRun'.mode = "dev" /\ lastRun.mode = "dev") => gitignore' = gitignore
     /\ (lastRun'.mode = "report" /\ lastRun.mode = "dev") => lastRun'.out = "dev"
     /\ (lastRun'.mode = "report" /\ lastRun.mode = "prod") => lastRun'.out = "prod"]_vars

\* C29: after any sequence of showReadmeModal and closeReadmeModal
\* calls, with any completion order of fetches and timers, once the fetch of
\* the most recent showReadmeModal(url) call has settled the modal body shows
\* that README (or its error message), and nothing belonging to an earlier
\* call, neither its content nor its "Loading...", overwrites it.
C29_LatestReadmeShown ==
  (/\ modal.kind = "modal"
   /\ modal.calls # << >>
   /\ modal.calls[Len(modal.calls)].fetch = "settled") =>
    modal.body = modal.calls[Len(modal.calls)].shown

\* rows are in ascending (descending) order of the trimmed, lower-cased text of a column
RowsOrdered(rows, key, asc) ==
  \A i \in 1..(Len(rows) - 1) :
    IF asc THEN ~TextLess(CellKey(rows[i + 1], key), CellKey(rows[i], key))
    ELSE ~TextLess(CellKey(rows[i], key), CellKey(rows[i + 1], key))
\* the same rows, each once
SameRows(r1, r2) ==
  /\ Len(r1) = Len(r2)
  /\ { r1[i] : i \in 1..Len(r1) } = { r2[i] : i \in 1..Len(r2) }
\* C30: sortTable(key) orders the rows ascending by that column when the
\* key differs from the key of the previous call or the call is the first on
\* the page, alternates between ascending and descending on consecutive calls
\* with the same key, and leaves the set of rows unchanged.
C30_SortTableDirection ==
  [][(table.kind = "table" /\ table'.calls = table.calls + 1) =>
       /\ SameRows(table.rows, table'.rows)
       /\ IF table.lastKey # table'.lastKey
          THEN RowsOrdered(table'.rows, table'.lastKey, TRUE)
          ELSE RowsOrdered(table'.rows, table'.lastKey, ~table.lastAsc)]_vars
====
